---- MODULE Spec2Model ----
(***************************************************************************)
(* State-machine model of the luxen storefront's dual-mode cart:           *)
(*   - the Local Cart Store (src/src/lib/cartStorage.ts),                  *)
(*   - the AuthProvider's onAuthStateChange merge, ProductCard add-to-cart *)
(*     and the Cart view's mutation handlers (src/unnamed/part_000),       *)
(*   - the remote cart_items table with its row-level-security policies    *)
(*     (src/src/lib/supabase.ts).                                          *)
(*   - the AuthModal's sign-in/sign-up form, the Checkout handoff and the  *)
(*     two size calculations (src/unnamed/part_000).                       *)
(* Nine specifications share the variables:                                *)
(*   SpecStore     the Local Cart Store driven through its exported API;   *)
(*   Spec          the application: identity notifications, merges, UI;    *)
(*   SpecAuth      the identity provider, the merge and add-to-cart alone, *)
(*                 with more notifications per behaviour;                  *)
(*   SpecModal     the AuthModal form with the identity provider;          *)
(*   SpecCheckout  the cart and the Checkout handoff;                      *)
(*   SpecSize      the size calculations over the measurement range;       *)
(*   SpecPartial   the store's calls with storage methods throwing one by  *)
(*                 one;                                                    *)
(*   SpecCart      the Cart view's remote calls split at their await;      *)
(*   SpecView      the Cart view across a login, with fairness.            *)
(***************************************************************************)
EXTENDS Integers, Sequences, FiniteSets, TLC

VARIABLES
    \* ---- cartStorage.ts -------------------------------------------------
    localStorage,     \* the 'cart' slot of window.localStorage
    sessionStorage,   \* the 'cart' slot of window.sessionStorage
    memoryCart,       \* module variable memoryCart
    lsThrows,         \* every localStorage call throws
    ssThrows,         \* every sessionStorage call throws
    nextLocalId,      \* source of fresh generateUUID() values
    twin,             \* the same call sequence run against working storage
    lastCall,         \* the last API call / UI event (history)
    added,            \* quantities added per (product_name, size) (history)
    onlyAdds,         \* only addToLocalCart calls so far (history)
    \* ---- part_000: AuthProvider ----------------------------------------
    session,          \* the auth client's current session user (or NoUser)
    user,             \* AuthProvider state `user` of the committed render
    nextUser,         \* value queued by setUser, not rendered yet
    subUser,          \* `user` captured by the subscribed callback closure
    merges,           \* onAuthStateChange callbacks suspended in the loop
    nextMid,          \* number of merges started (history)
    mergeInserts,     \* every insert a merge issued: <<mid, localId>> (history)
    lastDone,         \* the merge that finished last (history)
    \* ---- cart_items table ----------------------------------------------
    rows,             \* the table, in insertion order
    nextRowId,        \* gen_random_uuid() source
    \* ---- part_000: ProductCard / Cart / AppContent -----------------------
    cartOpen,         \* AppContent cartOpen
    cartStale,        \* Cart effect dependencies changed, effect not run yet
    items,            \* Cart state `items`
    localItems,       \* Cart state `localItems`
    viewAlias,        \* `localItems` is the very array memoryCart refers to
    nEvents,          \* auth notifications delivered so far
    nClicks,          \* UI clicks so far
    \* ---- part_000: AuthModal ---------------------------------------------
    authModal,        \* AppContent authOpen and AuthModal step, isSignUp, error, loading
    authCalls,        \* calls of supabase.auth.signUp / signInWithPassword (history)
    \* ---- part_000: AppContent.handleCheckout, Checkout ---------------------
    currentPage,      \* AppContent currentPage
    cartTotal,        \* AppContent cartTotal, in cents
    checkout,         \* Checkout state and the position of handleShopifyCheckout
    \* ---- part_000: ProductCard / AuthModal size recommendation -------------
    measurements,     \* the user_measurements row: waist and inseam, in half inches
    recommendedSize,  \* ProductCard recommendedSize
    suggestedSize,    \* result of AuthModal.calculateSuggestedSize
    \* ---- calls observed one by one ----------------------------------------
    probe,            \* the last saveLocalCart / clearLocalCart call and the read after it
    cartOps,          \* Cart.removeItem / updateQuantity calls, awaited or returned
    loadFailed        \* a select of Cart.loadCart has failed (history)

storeVars == <<localStorage, sessionStorage, memoryCart, lsThrows, ssThrows,
               nextLocalId, twin, lastCall, added, onlyAdds>>
authVars  == <<session, user, nextUser, subUser, merges, nextMid, mergeInserts,
               lastDone>>
tableVars == <<rows, nextRowId>>
uiVars    == <<cartOpen, cartStale, items, localItems, viewAlias,
               nEvents, nClicks>>
modalVars == <<authModal, authCalls>>
checkoutVars == <<currentPage, cartTotal, checkout>>
sizeVars  == <<measurements, recommendedSize, suggestedSize>>
lateVars  == <<probe, cartOps, loadFailed>>
vars      == <<storeVars, authVars, tableVars, uiVars, modalVars, checkoutVars,
               sizeVars, lateVars>>

-----------------------------------------------------------------------------
(* Bounds of the model *)

\* addToLocalCart / handleAddToCart calls per behaviour
MaxAdds == 3
\* largest quantity passed to addToLocalCart / updateLocalCartQuantity
MaxQty == 2
\* auth notifications delivered per behaviour
MaxEvents == 1
\* auth notifications and add-to-cart clicks per behaviour of SpecAuth
MaxAuthEvents == 2
MaxAuthClicks == 2
\* UI clicks (add to cart, cart buttons) per behaviour
MaxClicks == 2
\* sign-up / sign-in submissions and add-to-cart clicks per behaviour of SpecModal
MaxAuthCalls == 2
MaxModalClicks == 1
\* add-to-cart clicks per behaviour of SpecCheckout
MaxCheckoutClicks == 2
\* largest waist and inseam measured, in half inches (39 in, 34 in)
MaxWaist == 78
MaxInseam == 68

\* ProductCard.handleAddToCart: product_price 69.99, in cents
ProductPrice == 6999

ProductNames == {"SWEATPANTS"}
\* two of ProductCard.sizes
Sizes == {"M", "L"}
Pairs == ProductNames \X Sizes

-----------------------------------------------------------------------------
(* src/src/lib/cartStorage.ts *)

\* A storage slot: the key is absent, or holds a string.
NoKey == [present |-> FALSE, text |-> <<>>]
Slot(text) == [present |-> TRUE, text |-> text]

\* JSON.stringify(items): the array as text, one tuple of field values per line.
JSON_stringify(its) ==
    [i \in 1..Len(its) |->
        <<its[i].product_name, its[i].product_price, its[i].quantity,
          its[i].size, its[i].localId>>]

\* JSON.parse(cart): fresh objects built from the text.
JSON_parse(text) ==
    [i \in 1..Len(text) |->
        [product_name |-> text[i][1], product_price |-> text[i][2],
         quantity |-> text[i][3], size |-> text[i][4], localId |-> text[i][5]]]

\* The three places the cart lives in, as one value.
Store(ls, ss, mem) == [localStorage |-> ls, sessionStorage |-> ss, memoryCart |-> mem]

\* `cart ? JSON.parse(cart) : []`
ParseSlot(slot) == IF slot.present THEN JSON_parse(slot.text) ELSE <<>>

\* getLocalCart(): localStorage, else sessionStorage, else memoryCart.
GetLocalCart(S, lsT, ssT) ==
    IF ~lsT THEN ParseSlot(S.localStorage)
    ELSE IF ~ssT THEN ParseSlot(S.sessionStorage)
    ELSE S.memoryCart

\* saveLocalCart(items)
SaveLocalCart(S, lsT, ssT, its) ==
    IF ~lsT THEN Store(Slot(JSON_stringify(its)), S.sessionStorage, its)
    ELSE IF ~ssT THEN Store(S.localStorage, Slot(JSON_stringify(its)), its)
    ELSE Store(S.localStorage, S.sessionStorage, its)

\* cart.find(i => i.product_name === item.product_name && i.size === item.size)
FindPair(cart, name, size) ==
    LET hits == {i \in 1..Len(cart) :
                    cart[i].product_name = name /\ cart[i].size = size}
    IN  IF hits = {} THEN 0 ELSE CHOOSE i \in hits : \A j \in hits : i <= j

\* cart.find(i => i.localId === localId)
FindId(cart, localId) ==
    LET hits == {i \in 1..Len(cart) : cart[i].localId = localId}
    IN  IF hits = {} THEN 0 ELSE CHOOSE i \in hits : \A j \in hits : i <= j

\* addToLocalCart without the search for an existing line
AddToLocalCart_AlwaysPush(S, lsT, ssT, item, uuid) ==
    SaveLocalCart(S, lsT, ssT,
        Append(GetLocalCart(S, lsT, ssT),
               [product_name |-> item.product_name,
                product_price |-> item.product_price,
                quantity |-> item.quantity, size |-> item.size,
                localId |-> uuid]))

\* addToLocalCart(item); uuid is the value generateUUID() would return.
AddToLocalCart(S, lsT, ssT, item, uuid) ==
    LET cart == GetLocalCart(S, lsT, ssT)
        k    == FindPair(cart, item.product_name, item.size)
    IN  IF k # 0
        THEN SaveLocalCart(S, lsT, ssT,
                 [cart EXCEPT ![k].quantity = @ + item.quantity])
        ELSE SaveLocalCart(S, lsT, ssT,
                 Append(cart, [product_name |-> item.product_name,
                               product_price |-> item.product_price,
                               quantity |-> item.quantity,
                               size |-> item.size,
                               localId |-> uuid]))

\* removeFromLocalCart(localId)
RemoveFromLocalCart(S, lsT, ssT, localId) ==
    LET cart == GetLocalCart(S, lsT, ssT)
    IN  SaveLocalCart(S, lsT, ssT, SelectSeq(cart, LAMBDA it : it.localId # localId))

\* updateLocalCartQuantity(localId, quantity)
UpdateLocalCartQuantity(S, lsT, ssT, localId, quantity) ==
    LET cart == GetLocalCart(S, lsT, ssT)
        k    == FindId(cart, localId)
    IN  IF k # 0
        THEN SaveLocalCart(S, lsT, ssT, [cart EXCEPT ![k].quantity = quantity])
        ELSE S

\* clearLocalCart without `memoryCart = []`
ClearLocalCart_KeepsMemory(S, lsT, ssT) ==
    IF ~lsT THEN Store(NoKey, S.sessionStorage, S.memoryCart)
    ELSE IF ~ssT THEN Store(S.localStorage, NoKey, S.memoryCart)
    ELSE S

\* clearLocalCart()
ClearLocalCart(S, lsT, ssT) ==
    IF ~lsT THEN Store(NoKey, S.sessionStorage, <<>>)
    ELSE IF ~ssT THEN Store(S.localStorage, NoKey, <<>>)
    ELSE Store(S.localStorage, S.sessionStorage, <<>>)

\* The store the program runs on, and what getLocalCart() returns on it.
TheStore == Store(localStorage, sessionStorage, memoryCart)
LocalCart == GetLocalCart(TheStore, lsThrows, ssThrows)
TwinCart == GetLocalCart(twin, FALSE, FALSE)

-----------------------------------------------------------------------------
(* Values shared by the specifications *)

NoUser == "null"
Users == {"u1"}

\* One UI event: the handler called, the quantity it was passed, the `user`
\* it saw, and whether it called the local store / the cart_items table.
Call(op, quantity, u, local, remote) ==
    [op |-> op, quantity |-> quantity, user |-> u, local |-> local, remote |-> remote]
NoCall == Call("none", 0, NoUser, FALSE, FALSE)

NoMerge == [mid |-> 0, newUser |-> NoUser, read |-> <<>>, issued |-> <<>>,
            clean |-> TRUE, cartAfter |-> <<>>]

InitStoreVars ==
    /\ localStorage = NoKey
    /\ sessionStorage = NoKey
    /\ memoryCart = <<>>
    /\ nextLocalId = 1
    /\ twin = Store(NoKey, NoKey, <<>>)
    /\ lastCall = NoCall
    /\ added = [p \in Pairs |-> 0]
    /\ onlyAdds = TRUE

InitAuthVars ==
    /\ user = NoUser
    /\ nextUser = NoUser
    /\ subUser = NoUser
    /\ merges = <<>>
    /\ nextMid = 0
    /\ mergeInserts = {}
    /\ lastDone = NoMerge

InitTableVars ==
    /\ rows = <<>>
    /\ nextRowId = 1

InitUiVars ==
    /\ cartOpen = FALSE
    /\ cartStale = FALSE
    /\ items = <<>>
    /\ localItems = <<>>
    /\ viewAlias = FALSE
    /\ nEvents = 0
    /\ nClicks = 0

\* useState for AppContent.authOpen (line 798) and AuthModal isSignUp, step,
\* error, loading (lines 99-109)
ModalClosed ==
    [isOpen |-> FALSE, step |-> "auth", isSignUp |-> TRUE, error |-> "",
     loading |-> FALSE, awaiting |-> "none"]

InitModalVars ==
    /\ authModal = ModalClosed
    /\ authCalls = 0

\* Checkout before it is mounted: loading false, error null (lines 508-509)
NoCheckout ==
    [pc |-> "unmounted", user |-> NoUser, variants |-> <<>>, read |-> FALSE,
     items |-> <<>>, k |-> 0, attached |-> <<>>, error |-> "", loading |-> FALSE,
     href |-> "", fetches |-> 0, creates |-> 0]

InitCheckoutVars ==
    /\ currentPage = "home"
    /\ cartTotal = 0
    /\ checkout = NoCheckout

\* null for a size, and no user_measurements row
NoSize == "null"
NoMeasurements == [waist |-> 0, inseam |-> 0]

InitSizeVars ==
    /\ measurements = NoMeasurements
    /\ recommendedSize = NoSize
    /\ suggestedSize = NoSize

\* No saveLocalCart / clearLocalCart call observed yet
NoProbe == [wrote |-> "none", expect |-> <<>>, read |-> FALSE, got |-> <<>>]

InitLateVars ==
    /\ probe = NoProbe
    /\ cartOps = <<>>
    /\ loadFailed = FALSE

\* The state of the components a specification leaves out
restVars == <<modalVars, checkoutVars, sizeVars, lateVars>>
InitRestVars == InitModalVars /\ InitCheckoutVars /\ InitSizeVars /\ InitLateVars

-----------------------------------------------------------------------------
(* SpecStore: the Local Cart Store called through its exported functions.   *)
(* The twin runs the same calls, with the same generated ids, against a     *)
(* localStorage that never throws.                                          *)

SetStore(S) ==
    /\ localStorage' = S.localStorage
    /\ sessionStorage' = S.sessionStorage
    /\ memoryCart' = S.memoryCart

NewItem(name, size, q) ==
    [product_name |-> name, product_price |-> ProductPrice,
     quantity |-> q, size |-> size]

ApiAdd(name, size, q) ==
    /\ nextLocalId <= MaxAdds
    /\ SetStore(AddToLocalCart(TheStore, lsThrows, ssThrows,
                               NewItem(name, size, q), nextLocalId))
    /\ twin' = AddToLocalCart(twin, FALSE, FALSE, NewItem(name, size, q), nextLocalId)
    /\ nextLocalId' = nextLocalId + 1
    /\ added' = [added EXCEPT ![<<name, size>>] = @ + q]
    /\ UNCHANGED <<lsThrows, ssThrows, onlyAdds, lastCall>>

ApiRemove(localId) ==
    /\ SetStore(RemoveFromLocalCart(TheStore, lsThrows, ssThrows, localId))
    /\ twin' = RemoveFromLocalCart(twin, FALSE, FALSE, localId)
    /\ onlyAdds' = FALSE
    /\ UNCHANGED <<lsThrows, ssThrows, nextLocalId, added, lastCall>>

ApiUpdate(localId, quantity) ==
    /\ SetStore(UpdateLocalCartQuantity(TheStore, lsThrows, ssThrows, localId, quantity))
    /\ twin' = UpdateLocalCartQuantity(twin, FALSE, FALSE, localId, quantity)
    /\ onlyAdds' = FALSE
    /\ UNCHANGED <<lsThrows, ssThrows, nextLocalId, added, lastCall>>

ApiClear ==
    /\ SetStore(ClearLocalCart(TheStore, lsThrows, ssThrows))
    /\ twin' = ClearLocalCart(twin, FALSE, FALSE)
    /\ onlyAdds' = FALSE
    /\ UNCHANGED <<lsThrows, ssThrows, nextLocalId, added, lastCall>>

InitStore ==
    /\ InitStoreVars /\ InitAuthVars /\ InitTableVars /\ InitUiVars
    /\ InitRestVars
    /\ lsThrows \in BOOLEAN
    /\ ssThrows \in BOOLEAN
    /\ session = NoUser

NextStore ==
    \/ \E p \in Pairs, q \in 1..MaxQty : ApiAdd(p[1], p[2], q) /\ UNCHANGED <<authVars, tableVars, uiVars, restVars>>
    \/ \E id \in 1..MaxAdds : ApiRemove(id) /\ UNCHANGED <<authVars, tableVars, uiVars, restVars>>
    \/ \E id \in 1..MaxAdds, q \in 0..MaxQty : ApiUpdate(id, q) /\ UNCHANGED <<authVars, tableVars, uiVars, restVars>>
    \/ ApiClear /\ UNCHANGED <<authVars, tableVars, uiVars, restVars>>

SpecStore == InitStore /\ [][NextStore]_vars

-----------------------------------------------------------------------------
(* The cart_items table (src/src/lib/supabase.ts) *)

\* The object passed to supabase.from('cart_items').insert(...)
Payload(uid, it) ==
    [user_id |-> uid, product_name |-> it.product_name,
     product_price |-> it.product_price, quantity |-> it.quantity,
     size |-> it.size]

\* Policy "Users can insert own cart items": WITH CHECK (auth.uid() = user_id)
InsertAllowed(auth, payload) == auth # NoUser /\ auth = payload.user_id

\* Policies for SELECT / UPDATE / DELETE: USING (auth.uid() = user_id)
RowVisible(auth, row) == auth # NoUser /\ auth = row.user_id

\* CREATE TABLE cart_items: id defaults to gen_random_uuid()
NewRow(id, payload) ==
    [id |-> id, user_id |-> payload.user_id, product_name |-> payload.product_name,
     product_price |-> payload.product_price, quantity |-> payload.quantity,
     size |-> payload.size]

\* insert(payload) sent under session auth; net is FALSE on a transport failure.
InsertWon(auth, payload, net) == net /\ InsertAllowed(auth, payload)

InsertApplied(tbl, id, auth, payload, net) ==
    IF InsertWon(auth, payload, net) THEN Append(tbl, NewRow(id, payload)) ELSE tbl

\* .select('*').eq('user_id', uid)
SelectByUser(tbl, auth, uid) ==
    SelectSeq(tbl, LAMBDA r : r.user_id = uid /\ RowVisible(auth, r))

\* .delete().eq('id', id)
DeleteById(tbl, auth, id) ==
    SelectSeq(tbl, LAMBDA r : ~(r.id = id /\ RowVisible(auth, r)))

\* .update({ quantity }).eq('id', id)
UpdateById(tbl, auth, id, quantity) ==
    [i \in 1..Len(tbl) |->
        IF tbl[i].id = id /\ RowVisible(auth, tbl[i])
        THEN [tbl[i] EXCEPT !.quantity = quantity] ELSE tbl[i]]

-----------------------------------------------------------------------------
(* Arrays shared by reference.  With both storages throwing getLocalCart()  *)
(* returns memoryCart itself: addToLocalCart and updateLocalCartQuantity    *)
(* then change that array and its objects in place, while                   *)
(* removeFromLocalCart (filter) and clearLocalCart ([]) make memoryCart a   *)
(* new array that still shares the old one's objects.                       *)

MemoryOnly == lsThrows /\ ssThrows

\* arr with every object that is also in cart showing cart's quantity
SyncQty(arr, cart) ==
    [i \in 1..Len(arr) |->
        LET k == FindId(cart, arr[i].localId)
        IN  IF k # 0 THEN [arr[i] EXCEPT !.quantity = cart[k].quantity] ELSE arr[i]]

\* What a holder of array arr sees after call op left the cart as newCart.
HeldAfter(arr, alias, op, newCart) ==
    IF ~MemoryOnly \/ op \notin {"add", "update"} THEN arr
    ELSE IF alias THEN newCart
    ELSE SyncQty(arr, newCart)

AliasAfter(alias, op) == alias /\ op \in {"add", "update"}

\* The suspended merges after a local-store call made by the UI.
MergesAfter(op, newCart) ==
    [i \in 1..Len(merges) |->
        [merges[i] EXCEPT !.items = HeldAfter(@, merges[i].alias, op, newCart),
                          !.alias = AliasAfter(@, op),
                          !.clean = FALSE]]

-----------------------------------------------------------------------------
(* part_000: AuthProvider *)

\* the guard taking every change of user for a login
MergeStarts_AnyChange(newUser, prevUser, cart) ==
    newUser # prevUser /\ Len(cart) > 0

\* Lines 34-36: the guard `newUser && !prevUser`, getLocalCart(), the guard
\* `localItems.length > 0`.
MergeStarts(newUser, prevUser, cart) ==
    newUser # NoUser /\ prevUser = NoUser /\ Len(cart) > 0

\* the merge insert with the quantity left to the column default
MergeInsert_DefaultQuantity(newUser, it, auth) ==
    [auth |-> auth, status |-> "pending",
     payload |-> [Payload(newUser, it) EXCEPT !.quantity = 1]]

\* Lines 38-44: the insert the loop issues for one local line, sent under
\* session auth.
MergeInsert(newUser, it, auth) ==
    [auth |-> auth, status |-> "pending", payload |-> Payload(newUser, it)]

\* the loop issuing every insert before it awaits any
FirstIssued_All(newUser, cart, auth) ==
    [k \in 1..Len(cart) |-> MergeInsert(newUser, cart[k], auth)]

\* Lines 37-38: what the loop has issued when it first awaits: the insert
\* for the first line.
FirstIssued(newUser, cart, auth) == <<MergeInsert(newUser, cart[1], auth)>>

\* the callback calling clearLocalCart() outside the length guard
NotifyStore_ClearsWhenEmpty(S, lsT, ssT, newUser, prevUser) ==
    IF newUser # NoUser /\ prevUser = NoUser /\ GetLocalCart(S, lsT, ssT) = <<>>
    THEN ClearLocalCart(S, lsT, ssT)
    ELSE S

\* Lines 30-38: the store when the callback reaches its first await or its
\* end.  getLocalCart() only reads, and clearLocalCart() stands after the
\* loop, inside `if (localItems.length > 0)`.
NotifyStore(S, lsT, ssT, newUser, prevUser) == S

\* The onAuthStateChange callback, from the notification to its first await
\* (lines 28-38).  s is the session's user, NoUser for no session.
AuthNotify(s) ==
    /\ \/ session = NoUser /\ s \in Users        \* signed in
       \/ session \in Users /\ s = session       \* token refreshed
       \/ session \in Users /\ s = NoUser        \* signed out
    /\ session' = s
    /\ nEvents' = nEvents + 1
    /\ nextUser' = s                             \* setUser(newUser)
    /\ IF MergeStarts(s, subUser, LocalCart)
       THEN /\ nextMid' = nextMid + 1
            /\ merges' = Append(merges,
                   [mid |-> nextMid + 1, newUser |-> s, items |-> LocalCart,
                    alias |-> MemoryOnly, idx |-> 1, read |-> LocalCart,
                    clean |-> TRUE,
                    issued |-> FirstIssued(s, LocalCart, s)])
            /\ mergeInserts' = mergeInserts \cup {<<nextMid + 1, LocalCart[1].localId>>}
       ELSE UNCHANGED <<nextMid, merges, mergeInserts>>
    /\ SetStore(NotifyStore(TheStore, lsThrows, ssThrows, s, subUser))
    /\ UNCHANGED <<lsThrows, ssThrows, nextLocalId, twin, lastCall, added, onlyAdds,
                   user, subUser, lastDone, tableVars, cartOpen,
                   cartStale, items, localItems, viewAlias, nClicks>>

\* AuthProvider.signOut (lines 72-75).  When the auth client ends the session
\* it notifies the callback with no session; when it fails the error is
\* thrown and nothing else happens.
SignOut(ok) ==
    /\ user # NoUser /\ session # NoUser
    /\ IF ok THEN AuthNotify(NoUser)
             ELSE UNCHANGED <<storeVars, authVars, tableVars, uiVars>>

\* the loop leaving at the first insert that failed
LoopContinues_StopsOnError(m, won) == won /\ m.idx < Len(m.items)

\* Lines 37-45: `for (const item of localItems) { await ...insert(...) }`.
\* The awaited result is not looked at (won is unused): the loop goes on
\* while lines are left.
LoopContinues(m, won) == m.idx < Len(m.items)

\* The merge that has finished, as lastDone keeps it.
Finished(m, issued, cartAfter) ==
    [mid |-> m.mid, newUser |-> m.newUser, read |-> m.read, issued |-> issued,
     clean |-> m.clean, cartAfter |-> cartAfter]

\* The callback resumes after `await ...insert(...)` (lines 37-46): the insert
\* has reached the table or failed (net), the loop goes on to the next line
\* of localItems, or ends and calls clearLocalCart().
MergeInsertReturns(i, net) ==
    /\ i \in 1..Len(merges)
    /\ LET m    == merges[i]
           c    == m.issued[Len(m.issued)]
           won  == InsertWon(c.auth, c.payload, net)
           done == [m.issued EXCEPT ![Len(m.issued)].status =
                                        IF won THEN "ok" ELSE "failed"]
           S    == ClearLocalCart(TheStore, lsThrows, ssThrows)
       IN  /\ rows' = InsertApplied(rows, nextRowId, c.auth, c.payload, net)
           /\ nextRowId' = IF won THEN nextRowId + 1 ELSE nextRowId
           /\ IF LoopContinues(m, won)
              THEN /\ merges' = [merges EXCEPT
                          ![i].idx = m.idx + 1,
                          ![i].issued = Append(done,
                              MergeInsert(m.newUser, m.items[m.idx + 1], session))]
                   /\ mergeInserts' = mergeInserts \cup
                                          {<<m.mid, m.items[m.idx + 1].localId>>}
                   /\ UNCHANGED <<localStorage, sessionStorage, memoryCart,
                                  lastDone, viewAlias>>
              ELSE /\ SetStore(S)
                   /\ merges' = [j \in 1..(Len(merges) - 1) |->
                          LET o == IF j < i THEN merges[j] ELSE merges[j + 1]
                          IN  [o EXCEPT !.alias = FALSE]]
                   /\ viewAlias' = FALSE
                   /\ lastDone' = Finished(m, done, GetLocalCart(S, lsThrows, ssThrows))
                   /\ UNCHANGED mergeInserts
    /\ UNCHANGED <<lsThrows, ssThrows, nextLocalId, twin, lastCall, added, onlyAdds,
                   session, user, nextUser, subUser, nextMid, cartOpen, cartStale,
                   items, localItems, nEvents, nClicks>>

\* supabase.auth.getSession().then(...) (lines 23-26): setUser(session?.user).
\* Every run of the effect calls getSession(), so a promise may resolve at any
\* time; setUser with the value the state already holds changes nothing, and
\* only a resolution that changes the state is a step.
GetSessionResolves ==
    /\ nextUser # session
    /\ nextUser' = session
    /\ UNCHANGED <<storeVars, session, user, subUser, merges, nextMid, mergeInserts,
                   lastDone, tableVars, uiVars>>

\* React renders AuthProvider and its consumers with the state setUser queued.
\* The Cart effect depends on user (line 351); AppContent's effect raises
\* cartRefresh when user is set (lines 804-810).  The Cart effect does
\* nothing while the cart is closed (line 344).
Render ==
    /\ nextUser # user
    /\ subUser = user
    /\ user' = nextUser
    /\ cartStale' = cartOpen
    /\ UNCHANGED <<storeVars, session, nextUser, subUser, merges, nextMid,
                   mergeInserts, lastDone, tableVars, cartOpen, items, localItems,
                   viewAlias, nEvents, nClicks>>

\* useEffect(..., [user]) runs again after a render that changed user (lines
\* 22-53): unsubscribes and subscribes a callback that captures this render's
\* user (its getSession() call is GetSessionResolves).
Effect ==
    /\ subUser # user
    /\ subUser' = user
    /\ UNCHANGED <<storeVars, session, user, nextUser, merges, nextMid, mergeInserts,
                   lastDone, tableVars, uiVars>>

-----------------------------------------------------------------------------
(* part_000: ProductCard, Cart, AppContent *)

\* A local-store call made by a UI handler: the store and the suspended merges.
UiLocalWrite(op, S) ==
    /\ SetStore(S)
    /\ merges' = MergesAfter(op, GetLocalCart(S, lsThrows, ssThrows))

\* handleAddToCart without the branch on user
AddGoesRemote_Never(u) == FALSE

\* Which store ProductCard.handleAddToCart writes (line 668: `if (user)`).
AddGoesRemote(u) == u # NoUser

\* ProductCard.handleAddToCart (lines 665-687); for a user the awaited insert
\* reaches the table or fails (net).  onAddToCart is AppContent.handleAddToCart
\* (lines 812-815): cartRefresh + 1, cartOpen = true.
ClickAddToCart(size, net) ==
    /\ nClicks' = nClicks + 1
    /\ IF AddGoesRemote(user)
       THEN /\ LET payload == Payload(user, NewItem("SWEATPANTS", size, 1))
               IN  /\ rows' = InsertApplied(rows, nextRowId, session, payload, net)
                   /\ nextRowId' = IF InsertWon(session, payload, net)
                                   THEN nextRowId + 1 ELSE nextRowId
            /\ lastCall' = Call("handleAddToCart", 1, user, FALSE, TRUE)
            /\ UNCHANGED <<localStorage, sessionStorage, memoryCart, nextLocalId,
                           merges, localItems>>
       ELSE /\ net
            /\ LET S == AddToLocalCart(TheStore, lsThrows, ssThrows,
                                       NewItem("SWEATPANTS", size, 1), nextLocalId)
               IN  /\ UiLocalWrite("add", S)
                   /\ localItems' = HeldAfter(localItems, viewAlias, "add",
                                              GetLocalCart(S, lsThrows, ssThrows))
            /\ nextLocalId' = nextLocalId + 1
            /\ lastCall' = Call("handleAddToCart", 1, user, TRUE, FALSE)
            /\ UNCHANGED <<rows, nextRowId>>
    /\ cartOpen' = TRUE
    /\ cartStale' = TRUE
    /\ UNCHANGED <<lsThrows, ssThrows, twin, added, onlyAdds, session, user, nextUser,
                   subUser, nextMid, mergeInserts, lastDone, items, viewAlias, nEvents>>

\* Cart's useEffect (lines 343-351) with loadCart (lines 353-365); net is
\* FALSE when the select fails.
CartEffect(net) ==
    /\ cartStale /\ cartOpen
    /\ cartStale' = FALSE
    /\ IF user # NoUser
       THEN /\ items' = IF net THEN SelectByUser(rows, session, user) ELSE items
            /\ UNCHANGED <<localItems, viewAlias>>
       ELSE /\ net
            /\ localItems' = LocalCart
            /\ viewAlias' = MemoryOnly
            /\ UNCHANGED items
    /\ UNCHANGED <<storeVars, authVars, tableVars, cartOpen, nEvents, nClicks>>

\* the guard off by one: `if (quantity < 0) return;`
QuantityRejected_OffByOne(quantity) == quantity < 0

\* Lines 373 and 384: `if (quantity < 1) return;`
QuantityRejected(quantity) == quantity < 1

\* Cart.removeItem (lines 367-370), from the trash button of items[k].
RemoveItem(k) ==
    /\ cartOpen /\ user # NoUser /\ k \in 1..Len(items)
    /\ nClicks' = nClicks + 1
    /\ rows' = DeleteById(rows, session, items[k].id)
    /\ items' = SelectSeq(items, LAMBDA it : it.id # items[k].id)
    /\ lastCall' = Call("removeItem", 0, user, FALSE, TRUE)
    /\ UNCHANGED <<localStorage, sessionStorage, memoryCart, lsThrows, ssThrows,
                   nextLocalId, twin, added, onlyAdds, authVars, nextRowId,
                   cartOpen, cartStale, localItems, viewAlias, nEvents>>

\* Cart.updateQuantity (lines 372-376), from the - (d = -1) or + (d = 1)
\* button of items[k] (lines 437, 444).
UpdateQuantity(k, d) ==
    /\ cartOpen /\ user # NoUser /\ k \in 1..Len(items)
    /\ items[k].quantity + d <= MaxQty
    /\ nClicks' = nClicks + 1
    /\ LET id == items[k].id
           quantity == items[k].quantity + d
       IN  IF QuantityRejected(quantity)
           THEN /\ lastCall' = Call("updateQuantity", quantity, user, FALSE, FALSE)
                /\ UNCHANGED <<rows, items>>
           ELSE /\ rows' = UpdateById(rows, session, id, quantity)
                /\ items' = [j \in 1..Len(items) |->
                               IF items[j].id = id
                               THEN [items[j] EXCEPT !.quantity = quantity]
                               ELSE items[j]]
                /\ lastCall' = Call("updateQuantity", quantity, user, FALSE, TRUE)
    /\ UNCHANGED <<localStorage, sessionStorage, memoryCart, lsThrows, ssThrows,
                   nextLocalId, twin, added, onlyAdds, authVars, nextRowId,
                   cartOpen, cartStale, localItems, viewAlias, nEvents>>

\* Cart.removeLocalItem (lines 378-381), from the trash button of localItems[k].
RemoveLocalItem(k) ==
    /\ cartOpen /\ user = NoUser /\ k \in 1..Len(localItems)
    /\ nClicks' = nClicks + 1
    /\ LET S == RemoveFromLocalCart(TheStore, lsThrows, ssThrows, localItems[k].localId)
       IN  /\ UiLocalWrite("remove", S)
           /\ localItems' = GetLocalCart(S, lsThrows, ssThrows)
    /\ viewAlias' = MemoryOnly
    /\ lastCall' = Call("removeLocalItem", 0, user, TRUE, FALSE)
    /\ UNCHANGED <<lsThrows, ssThrows, nextLocalId, twin, added, onlyAdds, session,
                   user, nextUser, subUser, nextMid, mergeInserts, lastDone,
                   tableVars, cartOpen, cartStale, items, nEvents>>

\* Cart.updateLocalQuantity (lines 383-387), from the - or + button of
\* localItems[k] (lines 468, 475).
UpdateLocalQuantity(k, d) ==
    /\ cartOpen /\ user = NoUser /\ k \in 1..Len(localItems)
    /\ localItems[k].quantity + d <= MaxQty
    /\ nClicks' = nClicks + 1
    /\ LET localId == localItems[k].localId
           quantity == localItems[k].quantity + d
           S == UpdateLocalCartQuantity(TheStore, lsThrows, ssThrows, localId, quantity)
       IN  IF QuantityRejected(quantity)
           THEN /\ lastCall' = Call("updateLocalQuantity", quantity, user, FALSE, FALSE)
                /\ UNCHANGED <<localStorage, sessionStorage, memoryCart, merges,
                               localItems, viewAlias>>
           ELSE /\ UiLocalWrite("update", S)
                /\ localItems' = GetLocalCart(S, lsThrows, ssThrows)
                /\ viewAlias' = MemoryOnly
                /\ lastCall' = Call("updateLocalQuantity", quantity, user, TRUE, FALSE)
    /\ UNCHANGED <<lsThrows, ssThrows, nextLocalId, twin, added, onlyAdds, session,
                   user, nextUser, subUser, nextMid, mergeInserts, lastDone,
                   tableVars, cartOpen, cartStale, items, nEvents>>

-----------------------------------------------------------------------------
(* part_000: AuthProvider.signUp / signIn, AuthModal *)

\* What the backend may answer to signUp / signInWithPassword: success, or
\* an AuthError (an Error) with its message.
AuthErrors == {"User already registered", "Invalid login credentials"}
AuthResults ==
    {[ok |-> TRUE, isError |-> FALSE, message |-> ""]}
        \cup {[ok |-> FALSE, isError |-> TRUE, message |-> m] : m \in AuthErrors}

\* the catch clause showing its fallback text for every error
ErrorText_Generic(err) == "An error occurred"

\* Line 150: `err instanceof Error ? err.message : 'An error occurred'`
ErrorText(err) == IF err.isError THEN err.message ELSE "An error occurred"

\* The user icon of a guest (line 861) or onAuthRequired: setAuthOpen(true).
OpenAuth ==
    /\ user = NoUser /\ ~authModal.isOpen
    /\ authModal' = [authModal EXCEPT !.isOpen = TRUE]
    /\ UNCHANGED <<storeVars, authVars, tableVars, uiVars, authCalls, checkoutVars,
                   sizeVars, lateVars>>

\* Lines 256-259: setIsSignUp(!isSignUp); setError('').
ToggleSignUp ==
    /\ authModal.isOpen /\ authModal.step = "auth"
    /\ authModal' = [authModal EXCEPT !.isSignUp = ~@, !.error = ""]
    /\ UNCHANGED <<storeVars, authVars, tableVars, uiVars, authCalls, checkoutVars,
                   sizeVars, lateVars>>

\* AuthModal.handleClose (lines 183-191): step 'auth', error '', onClose().
HandleClose(m) == [m EXCEPT !.step = "auth", !.error = "", !.isOpen = FALSE]

\* The X button (line 205) and SKIP (lines 179-181, 309).
CloseAuth ==
    /\ authModal.isOpen
    /\ authModal' = HandleClose(authModal)
    /\ UNCHANGED <<storeVars, authVars, tableVars, uiVars, authCalls, checkoutVars,
                   sizeVars, lateVars>>

\* AuthModal.handleAuthSubmit up to its await (lines 135-146): setError(''),
\* setLoading(true), then signUp or signIn (lines 55-70) makes its one call
\* of the auth client.  The submit button is disabled while loading.
SubmitAuth ==
    /\ authModal.isOpen /\ authModal.step = "auth" /\ ~authModal.loading
    /\ authModal.awaiting = "none"
    /\ authModal' = [authModal EXCEPT !.error = "", !.loading = TRUE,
                         !.awaiting = IF authModal.isSignUp THEN "signUp" ELSE "signIn"]
    /\ authCalls' = authCalls + 1
    /\ UNCHANGED <<storeVars, authVars, tableVars, uiVars, checkoutVars, sizeVars, lateVars>>

\* The awaited call was rejected: signUp / signIn throw the error (lines 60,
\* 69), the catch clause shows it (lines 149-152).
AuthRejected(res) ==
    /\ authModal.awaiting # "none" /\ ~res.ok
    /\ authModal' = [authModal EXCEPT !.error = ErrorText(res), !.loading = FALSE,
                         !.awaiting = "none"]
    /\ UNCHANGED <<storeVars, authVars, tableVars, uiVars, authCalls, checkoutVars,
                   sizeVars, lateVars>>

\* The awaited call succeeded.  A session, when one is made (sign-in; sign-up
\* without email confirmation), is announced to the onAuthStateChange
\* callback before the call returns; then lines 143-144 (sign-up: step
\* 'measurements', loading false) or line 147 (sign-in: handleClose()).
AuthAccepted(u, withSession) ==
    /\ authModal.awaiting # "none"
    /\ withSession \/ authModal.awaiting = "signUp"
    /\ IF withSession
       THEN AuthNotify(u)
       ELSE UNCHANGED <<storeVars, authVars, tableVars, uiVars>>
    /\ authModal' =
          IF authModal.awaiting = "signUp"
          THEN [authModal EXCEPT !.step = "measurements", !.loading = FALSE,
                                 !.awaiting = "none"]
          ELSE [HandleClose(authModal) EXCEPT !.awaiting = "none"]
    /\ UNCHANGED <<authCalls, checkoutVars, sizeVars, lateVars>>

-----------------------------------------------------------------------------
(* part_000: AppContent.handleCheckout, Checkout *)

\* reduce((sum, item) => sum + item.product_price * item.quantity, 0)
RECURSIVE Total(_)
Total(lines) ==
    IF lines = <<>> THEN 0
    ELSE lines[1].product_price * lines[1].quantity + Total(Tail(lines))

\* What shopifyClient.product.fetch(PRODUCT_ID) may resolve to: no product, a
\* product without variants, a product with variants.
NoProduct == [found |-> FALSE, variants |-> <<>>]
Products == {NoProduct,
             [found |-> TRUE, variants |-> <<>>],
             [found |-> TRUE, variants |-> <<"variant-1", "variant-2">>]}

\* What a rejected Shopify call may throw: an Error, or a plain value.
CheckoutErrors ==
    {[isError |-> TRUE, message |-> "Failed to fetch", json |-> "{}"],
     [isError |-> FALSE, message |-> "", json |-> "[{\"message\":\"Variant is invalid\"}]"]}

\* checkout.webUrl of the created checkout
WebUrl == "https://checkout/web-url"

\* Line 566: `error instanceof Error ? error.message : JSON.stringify(error)`
CheckoutErrorText(err) == IF err.isError THEN err.message ELSE err.json

\* the line item with the product's last variant
LineItem_VariantPerLine(variants, item) ==
    [variantId |-> variants[Len(variants)], quantity |-> item.quantity,
     customAttributes |-> <<[key |-> "Size", value |-> item.size]>>]

\* Lines 547-555: lineItemsToAdd for one cart line
LineItem(variants, item) ==
    [variantId |-> variants[1], quantity |-> item.quantity,
     customAttributes |-> <<[key |-> "Size", value |-> item.size]>>]

\* the catch clause without setLoading(false)
CheckoutFailed_KeepsLoading(co, err) ==
    [co EXCEPT !.pc = "error", !.error = CheckoutErrorText(err)]

\* The catch clause (lines 563-568): setError(...), setLoading(false).
CheckoutFailed(co, err) ==
    [co EXCEPT !.pc = "error", !.error = CheckoutErrorText(err), !.loading = FALSE]

\* Lines 546-562 from the top of the loop with items read: the first
\* addLineItems call is issued, or with no items the browser is redirected.
CheckoutLoop(co, its) ==
    IF its = <<>>
    THEN [co EXCEPT !.items = its, !.pc = "redirected", !.href = WebUrl]
    ELSE [co EXCEPT !.items = its, !.pc = "add", !.k = 1]

\* The CHECKOUT button of a cart that shows lines (line 490):
\* AppContent.handleCheckout (lines 817-837); net is FALSE when its select
\* fails.  The page becomes 'checkout', Checkout mounts and its effect
\* (lines 512-514) starts handleShopifyCheckout (lines 516-521) with this
\* render's user: loading true, error null, product.fetch is awaited.
HandleCheckout(net) ==
    /\ currentPage = "home" /\ cartOpen
    /\ Len(IF user # NoUser THEN items ELSE localItems) > 0
    /\ cartTotal' = IF user # NoUser
                    THEN IF net THEN Total(SelectByUser(rows, session, user)) ELSE 0
                    ELSE Total(LocalCart)
    /\ user = NoUser => net
    /\ cartOpen' = FALSE
    /\ currentPage' = "checkout"
    /\ checkout' = [NoCheckout EXCEPT !.pc = "fetch", !.user = user,
                                      !.loading = TRUE, !.fetches = 1]
    /\ UNCHANGED <<storeVars, authVars, tableVars, cartStale, items, localItems,
                   viewAlias, nEvents, nClicks, modalVars, sizeVars, lateVars>>

\* product.fetch resolved (lines 521-529): without a product or a variant
\* 'Product not found' is thrown, else checkout.create() is awaited.
ProductFetched(product) ==
    /\ checkout.pc = "fetch"
    /\ checkout' =
          IF ~product.found \/ Len(product.variants) = 0
          THEN CheckoutFailed(checkout, [isError |-> TRUE, message |-> "Product not found",
                                         json |-> "{}"])
          ELSE [checkout EXCEPT !.pc = "create", !.variants = product.variants,
                                !.creates = 1]
    /\ UNCHANGED <<storeVars, authVars, tableVars, uiVars, modalVars, currentPage,
                   cartTotal, sizeVars, lateVars>>

\* product.fetch was rejected.
ProductFetchRejected(err) ==
    /\ checkout.pc = "fetch"
    /\ checkout' = CheckoutFailed(checkout, err)
    /\ UNCHANGED <<storeVars, authVars, tableVars, uiVars, modalVars, currentPage,
                   cartTotal, sizeVars, lateVars>>

\* checkout.create() resolved (lines 529-542): for a user the select on
\* cart_items is awaited, for a guest getLocalCart() is read and the loop
\* starts.
CheckoutCreated ==
    /\ checkout.pc = "create"
    /\ checkout' = IF checkout.user # NoUser
                   THEN [checkout EXCEPT !.pc = "read"]
                   ELSE CheckoutLoop([checkout EXCEPT !.read = TRUE], LocalCart)
    /\ UNCHANGED <<storeVars, authVars, tableVars, uiVars, modalVars, currentPage,
                   cartTotal, sizeVars, lateVars>>

\* checkout.create() was rejected.
CheckoutCreateRejected(err) ==
    /\ checkout.pc = "create"
    /\ checkout' = CheckoutFailed(checkout, err)
    /\ UNCHANGED <<storeVars, authVars, tableVars, uiVars, modalVars, currentPage,
                   cartTotal, sizeVars, lateVars>>

\* The select returned (lines 535-539): `items = data || []`; net is FALSE
\* when it failed.
CheckoutCartRead(net) ==
    /\ checkout.pc = "read"
    /\ checkout' = CheckoutLoop([checkout EXCEPT !.read = net],
                        IF net THEN SelectByUser(rows, session, checkout.user) ELSE <<>>)
    /\ UNCHANGED <<storeVars, authVars, tableVars, uiVars, modalVars, currentPage,
                   cartTotal, sizeVars, lateVars>>

\* addLineItems for items[k] resolved (lines 558-562): the loop goes on, or
\* after the last line `window.location.href = checkout.webUrl`.
LineItemAdded ==
    /\ checkout.pc = "add"
    /\ LET att == Append(checkout.attached,
                         LineItem(checkout.variants, checkout.items[checkout.k]))
       IN  checkout' =
             IF checkout.k < Len(checkout.items)
             THEN [checkout EXCEPT !.attached = att, !.k = @ + 1]
             ELSE [checkout EXCEPT !.attached = att, !.pc = "redirected",
                                   !.href = WebUrl]
    /\ UNCHANGED <<storeVars, authVars, tableVars, uiVars, modalVars, currentPage,
                   cartTotal, sizeVars, lateVars>>

\* addLineItems for items[k] was rejected.
LineItemRejected(err) ==
    /\ checkout.pc = "add"
    /\ checkout' = CheckoutFailed(checkout, err)
    /\ UNCHANGED <<storeVars, authVars, tableVars, uiVars, modalVars, currentPage,
                   cartTotal, sizeVars, lateVars>>

\* The X button of the checkout view in its error state:
\* AppContent.handleCheckoutClose (lines 839-842); Checkout unmounts.
HandleCheckoutClose ==
    /\ currentPage = "checkout" /\ checkout.pc = "error"
    /\ currentPage' = "home"
    /\ checkout' = NoCheckout
    /\ cartStale' = cartOpen
    /\ UNCHANGED <<storeVars, authVars, tableVars, cartOpen, items, localItems,
                   viewAlias, nEvents, nClicks, modalVars, cartTotal, sizeVars, lateVars>>

-----------------------------------------------------------------------------
(* part_000: size recommendation.  Lengths are in half inches, so the       *)
(* chart's inches are doubled and the tolerance 1.5 is 3.                   *)

\* ProductCard.sizeChart (lines 616-622) in Object.entries order, after
\* `waist.split('-').map(Number)` and `Number(inseam)`.
SizeChart ==
    <<[size |-> "XS", waistMin |-> 28, waistMax |-> 30, sizeInseam |-> 28],
      [size |-> "S",  waistMin |-> 30, waistMax |-> 32, sizeInseam |-> 29],
      [size |-> "M",  waistMin |-> 32, waistMax |-> 34, sizeInseam |-> 30],
      [size |-> "L",  waistMin |-> 34, waistMax |-> 36, sizeInseam |-> 31],
      [size |-> "XL", waistMin |-> 36, waistMax |-> 38, sizeInseam |-> 32]>>

\* AuthModal.sizeChart (lines 112-118), likewise.
ModalSizeChart ==
    <<[size |-> "XS", waistMin |-> 28, waistMax |-> 30, sizeInseam |-> 28],
      [size |-> "S",  waistMin |-> 30, waistMax |-> 32, sizeInseam |-> 29],
      [size |-> "M",  waistMin |-> 32, waistMax |-> 34, sizeInseam |-> 30],
      [size |-> "L",  waistMin |-> 34, waistMax |-> 36, sizeInseam |-> 31],
      [size |-> "XL", waistMin |-> 36, waistMax |-> 38, sizeInseam |-> 32]>>

\* Math.abs
Abs(x) == IF x < 0 THEN -x ELSE x

\* The loop of both functions from entry k of the chart: the condition of
\* lines 655-658 (123-126), `return size`, and `return 'M'` after the loop.
RECURSIVE SizeFrom(_, _, _, _)
SizeFrom(chart, k, waist, inseam) ==
    IF k > Len(chart) THEN "M"
    ELSE IF /\ waist >= 2 * chart[k].waistMin /\ waist <= 2 * chart[k].waistMax
            /\ Abs(inseam - 2 * chart[k].sizeInseam) <= 3
         THEN chart[k].size
         ELSE SizeFrom(chart, k + 1, waist, inseam)

\* the function with its loop starting at the chart's second entry
calculateRecommendedSize_SkipsFirst(waist, inseam) ==
    SizeFrom(SizeChart, 2, waist, inseam)

\* ProductCard.calculateRecommendedSize (lines 650-663)
calculateRecommendedSize(waist, inseam) == SizeFrom(SizeChart, 1, waist, inseam)

\* AuthModal.calculateSuggestedSize (lines 120-133)
calculateSuggestedSize(waist, inseam) == SizeFrom(ModalSizeChart, 1, waist, inseam)

\* ProductCard.loadRecommendedSize (lines 632-648) for a user whose
\* user_measurements row is measurements.
LoadRecommendedSize ==
    /\ user # NoUser
    /\ recommendedSize' = calculateRecommendedSize(measurements.waist, measurements.inseam)
    /\ UNCHANGED <<storeVars, authVars, tableVars, uiVars, modalVars, checkoutVars,
                   measurements, suggestedSize, lateVars>>

\* A call of AuthModal.calculateSuggestedSize with the same measurements.
SuggestSize ==
    /\ suggestedSize' = calculateSuggestedSize(measurements.waist, measurements.inseam)
    /\ UNCHANGED <<storeVars, authVars, tableVars, uiVars, modalVars, checkoutVars,
                   measurements, recommendedSize, lateVars>>

-----------------------------------------------------------------------------
(* Spec: the application.  SpecAuth: the identity provider, the merge and   *)
(* add-to-cart alone, with more notifications.                              *)

Init ==
    /\ InitStoreVars /\ InitAuthVars /\ InitTableVars /\ InitUiVars
    /\ InitRestVars
    /\ lsThrows \in BOOLEAN
    /\ ssThrows = lsThrows
    /\ session \in Users \cup {NoUser}

Next ==
    \/ \E s \in Users \cup {NoUser} : nEvents < MaxEvents /\ AuthNotify(s) /\ UNCHANGED restVars
    \/ \E i \in 1..Len(merges), net \in BOOLEAN : MergeInsertReturns(i, net) /\ UNCHANGED restVars
    \/ GetSessionResolves /\ UNCHANGED restVars
    \/ Render /\ UNCHANGED restVars
    \/ Effect /\ UNCHANGED restVars
    \/ \E size \in Sizes, net \in BOOLEAN : nClicks < MaxClicks /\ ClickAddToCart(size, net) /\ UNCHANGED restVars
    \/ \E net \in BOOLEAN : CartEffect(net) /\ UNCHANGED restVars
    \/ \E k \in 1..Len(items) : nClicks < MaxClicks /\ RemoveItem(k) /\ UNCHANGED restVars
    \/ \E k \in 1..Len(items), d \in {-1, 1} : nClicks < MaxClicks /\ UpdateQuantity(k, d) /\ UNCHANGED restVars
    \/ \E k \in 1..Len(localItems) : nClicks < MaxClicks /\ RemoveLocalItem(k) /\ UNCHANGED restVars
    \/ \E k \in 1..Len(localItems), d \in {-1, 1} : nClicks < MaxClicks /\ UpdateLocalQuantity(k, d) /\ UNCHANGED restVars

Spec == Init /\ [][Next]_vars

NextAuth ==
    \/ \E s \in Users \cup {NoUser} : nEvents < MaxAuthEvents /\ AuthNotify(s) /\ UNCHANGED restVars
    \/ \E ok \in BOOLEAN : nEvents < MaxAuthEvents /\ SignOut(ok) /\ UNCHANGED restVars
    \/ \E i \in 1..Len(merges), net \in BOOLEAN : MergeInsertReturns(i, net) /\ UNCHANGED restVars
    \/ GetSessionResolves /\ UNCHANGED restVars
    \/ Render /\ UNCHANGED restVars
    \/ Effect /\ UNCHANGED restVars
    \/ \E size \in Sizes, net \in BOOLEAN : nClicks < MaxAuthClicks /\ ClickAddToCart(size, net) /\ UNCHANGED restVars

SpecAuth == Init /\ [][NextAuth]_vars

\* SpecModal: signing up and signing in through the AuthModal, with the
\* provider, the merge and a guest add-to-cart.
NextModal ==
    \/ OpenAuth
    \/ ToggleSignUp
    \/ CloseAuth
    \/ authCalls < MaxAuthCalls /\ SubmitAuth
    \/ \E res \in AuthResults : AuthRejected(res)
    \/ \E u \in Users, withSession \in BOOLEAN : AuthAccepted(u, withSession)
    \/ \E i \in 1..Len(merges), net \in BOOLEAN : MergeInsertReturns(i, net) /\ UNCHANGED restVars
    \/ GetSessionResolves /\ UNCHANGED restVars
    \/ Render /\ UNCHANGED restVars
    \/ Effect /\ UNCHANGED restVars
    \/ \E size \in Sizes, net \in BOOLEAN : nClicks < MaxModalClicks /\ ClickAddToCart(size, net) /\ UNCHANGED restVars

SpecModal == Init /\ [][NextModal]_vars

\* SpecCheckout: filling a cart as a guest or as a user and checking out.
\* ProductCard is rendered on the home page only (lines 887-934).
NextCheckout ==
    \/ GetSessionResolves /\ UNCHANGED restVars
    \/ Render /\ UNCHANGED restVars
    \/ Effect /\ UNCHANGED restVars
    \/ \E size \in Sizes, net \in BOOLEAN :
          /\ nClicks < MaxCheckoutClicks /\ currentPage = "home"
          /\ ClickAddToCart(size, net) /\ UNCHANGED restVars
    \/ \E net \in BOOLEAN : CartEffect(net) /\ UNCHANGED restVars
    \/ \E net \in BOOLEAN : HandleCheckout(net)
    \/ \E product \in Products : ProductFetched(product)
    \/ \E err \in CheckoutErrors : ProductFetchRejected(err)
    \/ CheckoutCreated
    \/ \E err \in CheckoutErrors : CheckoutCreateRejected(err)
    \/ \E net \in BOOLEAN : CheckoutCartRead(net)
    \/ LineItemAdded
    \/ \E err \in CheckoutErrors : LineItemRejected(err)
    \/ HandleCheckoutClose

SpecCheckout == Init /\ [][NextCheckout]_vars

\* SpecSize: the size recommendation for every waist from 27 in and inseam
\* from 26 in, in steps of half an inch.
InitSize ==
    /\ InitStoreVars /\ InitAuthVars /\ InitTableVars /\ InitUiVars
    /\ InitModalVars /\ InitCheckoutVars /\ InitLateVars
    /\ lsThrows = FALSE /\ ssThrows = FALSE
    /\ session \in Users
    /\ measurements \in [waist : 54..MaxWaist, inseam : 52..MaxInseam]
    /\ recommendedSize = NoSize
    /\ suggestedSize = NoSize

NextSize ==
    \/ GetSessionResolves /\ UNCHANGED restVars
    \/ Render /\ UNCHANGED restVars
    \/ Effect /\ UNCHANGED restVars
    \/ LoadRecommendedSize
    \/ SuggestSize

SpecSize == InitSize /\ [][NextSize]_vars

-----------------------------------------------------------------------------
(* SpecPartial: saveLocalCart, clearLocalCart and getLocalCart called one   *)
(* after the other, each localStorage / sessionStorage method throwing or   *)
(* not at each call (quota exceeded on setItem only, a storage that starts  *)
(* or stops throwing).                                                      *)

\* A line as addToLocalCart builds it; the localId stands for the line's size.
CartLine(size, q) ==
    [product_name |-> "SWEATPANTS", product_price |-> ProductPrice,
     quantity |-> q, size |-> size, localId |-> IF size = "M" THEN 1 ELSE 2]

\* The lists passed to saveLocalCart
CartsToSave ==
    {<<>>} \cup {<<CartLine("M", q)>> : q \in 1..MaxQty}
           \cup {<<CartLine("M", q), CartLine("L", 1)>> : q \in 1..MaxQty}

\* saveLocalCart(its) (lines 25-36); lsSet / ssSet: localStorage.setItem /
\* sessionStorage.setItem throws at this call.
CallSave(its, lsSet, ssSet) ==
    /\ SetStore(SaveLocalCart(TheStore, lsSet, ssSet, its))
    /\ probe' = [wrote |-> "save", expect |-> its, read |-> FALSE, got |-> <<>>]
    /\ UNCHANGED <<lsThrows, ssThrows, nextLocalId, twin, lastCall, added, onlyAdds,
                   authVars, tableVars, uiVars, modalVars, checkoutVars, sizeVars,
                   cartOps, loadFailed>>

\* clearLocalCart() (lines 75-86); lsRemove / ssRemove: localStorage.removeItem /
\* sessionStorage.removeItem throws at this call.
CallClear(lsRemove, ssRemove) ==
    /\ SetStore(ClearLocalCart(TheStore, lsRemove, ssRemove))
    /\ probe' = [wrote |-> "clear", expect |-> <<>>, read |-> FALSE, got |-> <<>>]
    /\ UNCHANGED <<lsThrows, ssThrows, nextLocalId, twin, lastCall, added, onlyAdds,
                   authVars, tableVars, uiVars, modalVars, checkoutVars, sizeVars,
                   cartOps, loadFailed>>

\* getLocalCart() (lines 11-23) as the next call after a save or a clear;
\* lsGet / ssGet: localStorage.getItem / sessionStorage.getItem throws at
\* this call.
CallGet(lsGet, ssGet) ==
    /\ probe.wrote # "none" /\ ~probe.read
    /\ probe' = [probe EXCEPT !.read = TRUE,
                              !.got = GetLocalCart(TheStore, lsGet, ssGet)]
    /\ UNCHANGED <<storeVars, authVars, tableVars, uiVars, modalVars, checkoutVars,
                   sizeVars, cartOps, loadFailed>>

NextPartial ==
    \/ \E its \in CartsToSave, lsSet \in BOOLEAN, ssSet \in BOOLEAN :
          CallSave(its, lsSet, ssSet)
    \/ \E lsRemove \in BOOLEAN, ssRemove \in BOOLEAN : CallClear(lsRemove, ssRemove)
    \/ \E lsGet \in BOOLEAN, ssGet \in BOOLEAN : CallGet(lsGet, ssGet)

\* No method throws on every call here: the two flags stay off.
InitPartial ==
    /\ InitStoreVars /\ InitAuthVars /\ InitTableVars /\ InitUiVars
    /\ InitRestVars
    /\ lsThrows = FALSE /\ ssThrows = FALSE
    /\ session = NoUser

SpecPartial == InitPartial /\ [][NextPartial]_vars

-----------------------------------------------------------------------------
(* SpecCart: Cart.removeItem and Cart.updateQuantity as the two steps they  *)
(* are, the call up to its await and the rest after it, so that a second    *)
(* call can start while the first is awaited.                               *)

\* add-to-cart clicks per behaviour of SpecCart, made first
MaxCartAdds == 2
\* clicks on the cart's trash, - and + buttons per behaviour of SpecCart
MaxCartOps == 2

\* A call of removeItem or updateQuantity: its arguments, the `items` of the
\* render whose closure it is, and (history) whether that list was the
\* user's rows, and the number of rows made so far.
CartOp(op, id, quantity, seen) ==
    [op |-> op, id |-> id, quantity |-> quantity, seen |-> seen,
     status |-> "pending",
     fresh |-> seen = SelectByUser(rows, session, user),
     rowsThen |-> nextRowId]

\* Line 369: items.filter(item => item.id !== id)
ItemsAfterRemove(seen, id) == SelectSeq(seen, LAMBDA it : it.id # id)

\* Line 375: items.map(item => item.id === id ? { ...item, quantity } : item)
ItemsAfterUpdate(seen, id, quantity) ==
    [j \in 1..Len(seen) |->
        IF seen[j].id = id THEN [seen[j] EXCEPT !.quantity = quantity] ELSE seen[j]]

\* Cart.removeItem up to its await (lines 367-368), from the trash button of
\* items[k]: the delete is sent.
RemoveItemCalled(k) ==
    /\ cartOpen /\ user # NoUser /\ k \in 1..Len(items)
    /\ nClicks' = nClicks + 1
    /\ cartOps' = Append(cartOps, CartOp("remove", items[k].id, 0, items))
    /\ lastCall' = Call("removeItem", 0, user, FALSE, TRUE)
    /\ UNCHANGED <<localStorage, sessionStorage, memoryCart, lsThrows, ssThrows,
                   nextLocalId, twin, added, onlyAdds, authVars, tableVars,
                   cartOpen, cartStale, items, localItems, viewAlias, nEvents,
                   modalVars, checkoutVars, sizeVars, probe, loadFailed>>

\* Cart.updateQuantity up to its await (lines 372-374), from the - or +
\* button of items[k]: below 1 it returns, else the update is sent.
UpdateQuantityCalled(k, d) ==
    /\ cartOpen /\ user # NoUser /\ k \in 1..Len(items)
    /\ items[k].quantity + d <= MaxQty
    /\ nClicks' = nClicks + 1
    /\ LET quantity == items[k].quantity + d
       IN  IF QuantityRejected(quantity)
           THEN /\ lastCall' = Call("updateQuantity", quantity, user, FALSE, FALSE)
                /\ UNCHANGED cartOps
           ELSE /\ lastCall' = Call("updateQuantity", quantity, user, FALSE, TRUE)
                /\ cartOps' = Append(cartOps,
                                     CartOp("update", items[k].id, quantity, items))
    /\ UNCHANGED <<localStorage, sessionStorage, memoryCart, lsThrows, ssThrows,
                   nextLocalId, twin, added, onlyAdds, authVars, tableVars,
                   cartOpen, cartStale, items, localItems, viewAlias, nEvents,
                   modalVars, checkoutVars, sizeVars, probe, loadFailed>>

\* The awaited delete or update returns (net: it reached the table) and the
\* call goes on to setItems with the list of its closure (lines 369, 375).
CartCallReturns(i, net) ==
    /\ i \in 1..Len(cartOps) /\ cartOps[i].status = "pending"
    /\ LET c == cartOps[i]
       IN  /\ rows' = IF ~net THEN rows
                      ELSE IF c.op = "remove" THEN DeleteById(rows, session, c.id)
                      ELSE UpdateById(rows, session, c.id, c.quantity)
           /\ items' = IF c.op = "remove" THEN ItemsAfterRemove(c.seen, c.id)
                       ELSE ItemsAfterUpdate(c.seen, c.id, c.quantity)
    /\ cartOps' = [cartOps EXCEPT ![i].status = IF net THEN "ok" ELSE "failed"]
    /\ UNCHANGED <<storeVars, authVars, nextRowId, cartOpen, cartStale, localItems,
                   viewAlias, nEvents, nClicks, modalVars, checkoutVars, sizeVars,
                   probe, loadFailed>>

\* Cart's effect with loadCart, any failed select remembered.
CartLoad(net) ==
    /\ CartEffect(net)
    /\ loadFailed' = (loadFailed \/ (user # NoUser /\ ~net))
    /\ UNCHANGED <<modalVars, checkoutVars, sizeVars, probe, cartOps>>

\* A session exists from the start; storage works.
InitCart ==
    /\ InitStoreVars /\ InitAuthVars /\ InitTableVars /\ InitUiVars
    /\ InitRestVars
    /\ lsThrows = FALSE /\ ssThrows = FALSE
    /\ session \in Users

NextCart ==
    \/ GetSessionResolves /\ UNCHANGED restVars
    \/ Render /\ UNCHANGED restVars
    \/ Effect /\ UNCHANGED restVars
    \/ \E size \in Sizes, net \in BOOLEAN :
          /\ nClicks < MaxCartAdds
          /\ ClickAddToCart(size, net) /\ UNCHANGED restVars
    \/ \E net \in BOOLEAN : CartLoad(net)
    \/ \E k \in 1..Len(items) :
          nClicks < MaxCartAdds + MaxCartOps /\ RemoveItemCalled(k)
    \/ \E k \in 1..Len(items), d \in {-1, 1} :
          nClicks < MaxCartAdds + MaxCartOps /\ UpdateQuantityCalled(k, d)
    \/ \E i \in 1..Len(cartOps), net \in BOOLEAN : CartCallReturns(i, net)

SpecCart == InitCart /\ [][NextCart]_vars

-----------------------------------------------------------------------------
(* SpecView: a guest fills the cart, which opens the cart view, and logs    *)
(* in.  What the runtime schedules is bound to happen: an awaited insert    *)
(* returns, a resolved promise runs its handler, React renders queued state *)
(* and runs the effects whose dependencies changed.  Clicks and              *)
(* notifications are not.                                                   *)

NextView ==
    \/ \E s \in Users \cup {NoUser} : nEvents < MaxEvents /\ AuthNotify(s) /\ UNCHANGED restVars
    \/ \E i \in 1..Len(merges), net \in BOOLEAN : MergeInsertReturns(i, net) /\ UNCHANGED restVars
    \/ GetSessionResolves /\ UNCHANGED restVars
    \/ Render /\ UNCHANGED restVars
    \/ Effect /\ UNCHANGED restVars
    \/ \E size \in Sizes, net \in BOOLEAN : nClicks < MaxClicks /\ ClickAddToCart(size, net) /\ UNCHANGED restVars
    \/ \E net \in BOOLEAN : CartLoad(net)

FairView ==
    /\ WF_vars(\E i \in 1..Len(merges), net \in BOOLEAN :
                  MergeInsertReturns(i, net) /\ UNCHANGED restVars)
    /\ WF_vars(GetSessionResolves /\ UNCHANGED restVars)
    /\ WF_vars(Render /\ UNCHANGED restVars)
    /\ WF_vars(Effect /\ UNCHANGED restVars)
    /\ WF_vars(\E net \in BOOLEAN : CartLoad(net))

SpecView == Init /\ [][NextView]_vars /\ FairView

-----------------------------------------------------------------------------
(* Properties of the Local Cart Store (SpecStore) *)

WorkingStorage == ~lsThrows /\ ~ssThrows

\* Indices of the lines of cart for pair p
LinesOf(cart, p) ==
    {i \in 1..Len(cart) : cart[i].product_name = p[1] /\ cart[i].size = p[2]}

OneLinePerPair ==
    \A p \in Pairs :
        IF added[p] = 0 THEN LinesOf(LocalCart, p) = {}
        ELSE /\ Cardinality(LinesOf(LocalCart, p)) = 1
             /\ \A i \in LinesOf(LocalCart, p) : LocalCart[i].quantity = added[p]

AddOfExistingPair ==
    \A p \in Pairs, q \in 1..MaxQty :
        (ApiAdd(p[1], p[2], q) /\ FindPair(LocalCart, p[1], p[2]) # 0)
        => /\ Len(LocalCart') = Len(LocalCart)
           /\ \A i \in 1..Len(LocalCart) :
                 i # FindPair(LocalCart, p[1], p[2]) => LocalCart'[i] = LocalCart[i]

\* C4: with working storage, after addToLocalCart calls only, starting from
\* an empty cart, getLocalCart() holds exactly one line per distinct
\* (product_name, size) pair added, with the sum of the quantities added for
\* it; an add of a pair that has a line leaves the number of lines and every
\* other line as they were.
C4_LocalDedup ==
    /\ []((WorkingStorage /\ onlyAdds) => OneLinePerPair)
    /\ [][WorkingStorage => AddOfExistingPair]_vars

\* C4 witness: three adds, two distinct pairs, one of them added twice.
C4_Witness ==
    /\ WorkingStorage /\ onlyAdds
    /\ nextLocalId = 4
    /\ Len(LocalCart) = 2
    /\ \E p \in Pairs : added[p] >= 2

\* C6 as claimed: updateLocalCartQuantity(localId, quantity) with
\* quantity < 1 leaves the stored cart as it was.
C6_StoreQuantityFloor ==
    [][\A id \in 1..MaxAdds, q \in 0..MaxQty :
          (q < 1 /\ ApiUpdate(id, q)) => LocalCart' = LocalCart]_vars

\* C8: with every localStorage and sessionStorage call throwing,
\* getLocalCart() returns what it returns after the same calls on a working
\* localStorage: the same lines, quantities and order.
C8_FallbackTransparent == MemoryOnly => LocalCart = TwinCart

\* C8 witness: storage throws, adds and other calls were made, lines are left.
C8_Witness ==
    /\ MemoryOnly /\ ~onlyAdds
    /\ nextLocalId >= 3
    /\ Len(LocalCart) >= 1
    /\ \E i \in 1..Len(LocalCart) : LocalCart[i].quantity >= 2

-----------------------------------------------------------------------------
(* Properties of the application (Spec, SpecAuth) *)

\* The payloads of the inserts a merge issued, in order.
PayloadsOf(issued) == [i \in 1..Len(issued) |-> issued[i].payload]

\* The payloads the lines of cart call for under user u, in order.
PayloadsFor(u, cart) == [i \in 1..Len(cart) |-> Payload(u, cart[i])]

\* C1: a Guest->Authenticated notification that finds N local lines issues
\* exactly N inserts, one per line in order, each with the line's
\* product_name, product_price, quantity and size and the new user's id (no
\* localId), and getLocalCart() is empty right after the merge.  (With the
\* in-memory fallback the loop walks memoryCart itself, so this is stated
\* for merges no other local-cart write ran into.)
C1_MergePostcondition ==
    (lastDone.mid # 0 /\ (lastDone.clean \/ ~MemoryOnly))
    => /\ PayloadsOf(lastDone.issued) = PayloadsFor(lastDone.newUser, lastDone.read)
       /\ lastDone.cartAfter = <<>>

\* C1 witness: an undisturbed merge of two lines has finished, both inserts
\* have made their rows and the local cart is empty.
C1_Witness ==
    /\ lastDone.mid # 0 /\ lastDone.clean
    /\ lastDone.newUser \in Users
    /\ Len(lastDone.read) = 2 /\ Len(lastDone.issued) = 2
    /\ Len(rows) = 2
    /\ LocalCart = <<>>

\* C2 as claimed: a notification carrying the session of the user the
\* provider already holds starts no merge and issues no insert.
C2_TokenRefreshNoMerge ==
    [][(/\ nEvents' = nEvents + 1
        /\ session # NoUser /\ session' = session
        /\ user = session /\ nextUser = session)
       => (nextMid' = nextMid /\ mergeInserts' = mergeInserts)]_vars

\* Number of merge inserts issued for local line localId
InsertsFor(localId) == Cardinality({x \in mergeInserts : x[2] = localId})

\* C3 as claimed: at most one merge insert is issued for each local line.
C3_MergeOnce == \A localId \in 1..(nextLocalId - 1) : InsertsFor(localId) <= 1

\* C5 as claimed: the table holds at most one row per user, product_name
\* and size.
C5_RemoteDedup ==
    \A i, j \in 1..Len(rows) :
        (/\ rows[i].user_id = rows[j].user_id
         /\ rows[i].product_name = rows[j].product_name
         /\ rows[i].size = rows[j].size) => i = j

QuantityFloor ==
    /\ \A i \in 1..Len(LocalCart) : LocalCart[i].quantity >= 1
    /\ \A i \in 1..Len(rows) : rows[i].quantity >= 1

\* A click on a - button that would take the quantity below 1
RejectedDecrement ==
    /\ nClicks' = nClicks + 1
    /\ lastCall'.op \in {"updateQuantity", "updateLocalQuantity"}
    /\ lastCall'.quantity < 1

\* C7: every local line and every row has quantity >= 1, and a decrement
\* that would reach 0 calls neither store and changes neither.
C7_QuantityInvariant ==
    /\ []QuantityFloor
    /\ [][RejectedDecrement
          => /\ UNCHANGED <<localStorage, sessionStorage, memoryCart, rows>>
             /\ ~lastCall'.local /\ ~lastCall'.remote]_vars

\* C7 witness: the - button of a local line of quantity 1 was clicked, and
\* the line is still there with quantity 1.
C7_Witness ==
    /\ lastCall.op = "updateLocalQuantity" /\ lastCall.quantity = 0
    /\ Len(LocalCart) = 1 /\ LocalCart[1].quantity = 1

\* C9: a UI cart mutation calls the local store if and only if the handler's
\* user is null and the cart_items table if and only if it is set, changes
\* nothing of the other store, and never calls both.
C9_StoreExclusivity ==
    [][nClicks' = nClicks + 1
       => /\ lastCall'.user = user
          /\ ~(lastCall'.local /\ lastCall'.remote)
          /\ (lastCall'.local \/ lastCall'.remote \/ QuantityRejected(lastCall'.quantity))
          /\ user = NoUser => (~lastCall'.remote /\ rows' = rows)
          /\ user # NoUser => (/\ ~lastCall'.local
                               /\ UNCHANGED <<localStorage, sessionStorage, memoryCart>>)]_vars

\* C9 witness: both stores hold lines, and the last add went to the table.
C9_Witness ==
    /\ lastCall.op = "handleAddToCart" /\ lastCall.user \in Users /\ lastCall.remote
    /\ Len(rows) >= 1
    /\ Len(LocalCart) >= 1

\* The insert merge i is awaiting
Awaited(i) == merges[i].issued[Len(merges[i].issued)]

\* The awaited insert of merge i comes back failed: the table is as before,
\* and the merge either issues the insert for its next line or, after the
\* last line, ends with the local cart cleared.
FailedInsertSkipped(i, net) ==
    (/\ MergeInsertReturns(i, net)
     /\ ~InsertWon(Awaited(i).auth, Awaited(i).payload, net))
    => /\ rows' = rows
       /\ IF merges[i].idx < Len(merges[i].items)
          THEN /\ Len(merges') = Len(merges)
               /\ Len(merges'[i].issued) = Len(merges[i].issued) + 1
               /\ merges'[i].issued[Len(merges[i].issued)].status = "failed"
               /\ merges'[i].issued[Len(merges[i].issued) + 1].status = "pending"
               /\ LocalCart' = LocalCart
          ELSE /\ lastDone'.mid = merges[i].mid
               /\ lastDone'.issued[Len(merges[i].issued)].status = "failed"
               /\ LocalCart' = <<>>

\* Every line read has had its insert, whatever became of the others, and
\* the local cart was cleared.
AllAttemptedThenCleared ==
    (lastDone.mid # 0 /\ (lastDone.clean \/ ~MemoryOnly))
    => /\ Len(lastDone.issued) = Len(lastDone.read)
       /\ \A k \in 1..Len(lastDone.issued) :
             lastDone.issued[k].status \in {"ok", "failed"}
       /\ lastDone.cartAfter = <<>>

\* C11: when an insert of the merge fails, the merge still issues an insert
\* for every remaining local line and still clears the local cart at the
\* end; the failed insert leaves no row, so its line is in neither store.
C11_MergeFailureHandling ==
    /\ []AllAttemptedThenCleared
    /\ [][\A i \in 1..Len(merges), net \in BOOLEAN : FailedInsertSkipped(i, net)]_vars

\* C11 witness: a merge of two lines has ended, its first insert failed, its
\* second made the only row, and the local cart is empty.
C11_Witness ==
    /\ lastDone.mid # 0 /\ lastDone.clean
    /\ Len(lastDone.read) = 2 /\ Len(lastDone.issued) = 2
    /\ lastDone.issued[1].status = "failed"
    /\ lastDone.issued[2].status = "ok"
    /\ Len(rows) = 1
    /\ rows[1].size = lastDone.read[2].size
    /\ LocalCart = <<>>

\* C10 as claimed: once a merge has cleared the local cart, every line it
\* read has an insert that succeeded.
C10_ClearedOnlyAfterWritten ==
    lastDone.mid # 0
    => \A i \in 1..Len(lastDone.read) :
          \E k \in 1..Len(lastDone.issued) :
              /\ lastDone.issued[k].payload = Payload(lastDone.newUser, lastDone.read[i])
              /\ lastDone.issued[k].status = "ok"

\* C12 as claimed: when the select of Cart.loadCart fails, the cart view
\* shows no items.
C12_ReadFailureShowsEmpty ==
    [][(user # NoUser /\ CartEffect(FALSE)) => items' = <<>>]_vars

-----------------------------------------------------------------------------
(* Properties of the AuthModal (SpecModal) *)

\* A rejected sign-up / sign-in: the message is shown as it came, the modal
\* is where it was, nothing of the identity, the merges or the carts moves,
\* and no further call of the auth client is made or left pending.
AuthFailureShown(res) ==
    AuthRejected(res)
    => /\ authModal'.error = res.message
       /\ authModal'.step = "auth"
       /\ authModal'.isOpen = authModal.isOpen
       /\ authModal'.isSignUp = authModal.isSignUp
       /\ ~authModal'.loading
       /\ authModal'.awaiting = "none"
       /\ authCalls' = authCalls
       /\ UNCHANGED <<session, user, nextUser, subUser, merges, nextMid,
                      mergeInserts, lastDone, rows, localStorage, sessionStorage,
                      memoryCart>>

\* C13: when the backend rejects signUp or signIn, the backend's message is
\* shown verbatim, the modal stays open on the 'auth' step, the identity is
\* unchanged, no merge runs and the call is not repeated.
C13_AuthFailure == [][\A res \in AuthResults : AuthFailureShown(res)]_vars

\* C13 witness: a guest with a line in the local cart had a sign-in or
\* sign-up rejected: the modal is open on 'auth' with the backend's message,
\* one call was made, no session, no merge.
C13_Witness ==
    /\ authModal.isOpen /\ authModal.step = "auth"
    /\ authModal.error \in AuthErrors
    /\ authModal.awaiting = "none" /\ ~authModal.loading
    /\ authCalls = 1
    /\ session = NoUser /\ user = NoUser
    /\ Len(LocalCart) = 1
    /\ nextMid = 0

-----------------------------------------------------------------------------
(* Properties of the checkout (SpecCheckout) *)

\* A step of handleShopifyCheckout that fails: no product or no variant, or a
\* rejected product.fetch, checkout.create or addLineItems.
CheckoutStepFails ==
    \/ \E product \in Products :
          (~product.found \/ product.variants = <<>>) /\ ProductFetched(product)
    \/ \E err \in CheckoutErrors : ProductFetchRejected(err)
    \/ \E err \in CheckoutErrors : CheckoutCreateRejected(err)
    \/ \E err \in CheckoutErrors : LineItemRejected(err)

\* The checkout view shows its error, is not loading and has not redirected.
InErrorState(co) ==
    co.pc = "error" /\ co.error # "" /\ ~co.loading /\ co.href = ""

\* C14: a failing product fetch, checkout creation or addLineItems call ends
\* the checkout in the error state with loading false and no redirect; from
\* then on no line item is attached, nothing is fetched or created again and
\* the browser is not redirected, until the user closes the view.
C14_CheckoutFailure ==
    /\ [][CheckoutStepFails
          => /\ InErrorState(checkout')
             /\ checkout'.attached = checkout.attached
             /\ checkout'.fetches = checkout.fetches
             /\ checkout'.creates = checkout.creates]_vars
    /\ [](checkout.pc = "error" => InErrorState(checkout))
    /\ [][checkout.pc = "error"
          => (checkout' = checkout \/ (HandleCheckoutClose /\ checkout' = NoCheckout))]_vars

\* C14 witness: of two cart lines the first was attached and the addLineItems
\* call for the second failed.
C14_Witness ==
    /\ InErrorState(checkout)
    /\ Len(checkout.items) = 2 /\ Len(checkout.attached) = 1 /\ checkout.k = 2
    /\ checkout.fetches = 1 /\ checkout.creates = 1

\* The cart the checkout's user is shown: the user's rows, or the local lines.
ActiveCart(u) ==
    IF u # NoUser THEN SelectSeq(rows, LAMBDA r : r.user_id = u) ELSE LocalCart

\* The line items that lines call for, in order.
ExpectedLineItems(variants, lines) ==
    [i \in 1..Len(lines) |->
        [variantId |-> variants[1], quantity |-> lines[i].quantity,
         customAttributes |-> <<[key |-> "Size", value |-> lines[i].size]>>]]

\* While lines are being attached the browser has not been redirected, and
\* the lines attached are those before the one awaited.
AttachedInOrder ==
    /\ checkout.href # "" => checkout.pc = "redirected"
    /\ checkout.pc = "add"
       => checkout.attached =
             ExpectedLineItems(checkout.variants,
                               SubSeq(checkout.items, 1, checkout.k - 1))

\* C15 as claimed: at the redirect the lines attached are the lines of the
\* active cart, one per line in order.
C15_AttachedAreCartLines ==
    checkout.pc = "redirected"
    => checkout.attached =
          ExpectedLineItems(checkout.variants, ActiveCart(checkout.user))

\* C15, amended: at the redirect the lines attached are the lines of the
\* active cart when the cart was read (the user's rows, or the guest's local
\* lines), one per line in order, each with the first variant's id, the
\* line's quantity and its size as the Size attribute, and none when the
\* select on cart_items failed; the redirect to webUrl comes only after the
\* last line was attached.
C15_HandoffMapping ==
    /\ AttachedInOrder
    /\ checkout.pc = "redirected"
       => /\ checkout.href = WebUrl
          /\ checkout.attached =
                ExpectedLineItems(checkout.variants,
                    IF checkout.read THEN ActiveCart(checkout.user) ELSE <<>>)

\* C15 witness: a user's two rows of different sizes were read and attached,
\* and the browser was redirected.
C15_Witness ==
    /\ checkout.pc = "redirected" /\ checkout.read
    /\ checkout.user \in Users
    /\ Len(checkout.attached) = 2
    /\ checkout.attached[1].customAttributes[1].value
          # checkout.attached[2].customAttributes[1].value

-----------------------------------------------------------------------------
(* Properties of the size recommendation (SpecSize) *)

\* Chart entry k fits: waist within 28-30, 30-32, ... inclusive, and the
\* inseam within 1.5 of the entry's (all doubled).
Fits(k, m) ==
    /\ 2 * SizeChart[k].waistMin <= m.waist /\ m.waist <= 2 * SizeChart[k].waistMax
    /\ m.inseam - 2 * SizeChart[k].sizeInseam \in -3..3

\* The size called for: that of the first entry that fits, M when none does.
SizeFor(m) ==
    IF \E k \in 1..Len(SizeChart) : Fits(k, m)
    THEN SizeChart[CHOOSE k \in 1..Len(SizeChart) :
                      Fits(k, m) /\ \A j \in 1..(k - 1) : ~Fits(j, m)].size
    ELSE "M"

\* C16: calculateRecommendedSize returns the first size in chart order whose
\* inclusive waist range contains waist and whose inseam is within 1.5 of
\* inseam, M when none matches; waist 33, inseam 30 gives M; and
\* calculateSuggestedSize returns the same for every input.
C16_SizeRecommendation ==
    /\ [k \in 1..Len(SizeChart) |-> SizeChart[k].size] = <<"XS", "S", "M", "L", "XL">>
    /\ recommendedSize # NoSize => recommendedSize = SizeFor(measurements)
    /\ suggestedSize # NoSize => suggestedSize = SizeFor(measurements)
    /\ (recommendedSize # NoSize /\ suggestedSize # NoSize)
          => recommendedSize = suggestedSize
    /\ (recommendedSize # NoSize /\ measurements = [waist |-> 66, inseam |-> 60])
          => recommendedSize = "M"

\* C16 witness: waist 30 and inseam 29.5 fit XS and S, and both functions
\* have returned XS.
C16_Witness ==
    /\ measurements = [waist |-> 60, inseam |-> 59]
    /\ recommendedSize = "XS" /\ suggestedSize = "XS"

-----------------------------------------------------------------------------
(* Properties of the identity provider and the merge (SpecAuth) *)

\* C17 as claimed: every insert a merge issues names the identity that is
\* authenticated when the insert is issued.
C17_IdentityScoping ==
    \A i \in 1..Len(merges) : \A k \in 1..Len(merges[i].issued) :
        merges[i].issued[k].payload.user_id = merges[i].issued[k].auth

\* The inserts of merge m so far: all but the last have come back, the last
\* is awaited, and they are for the first lines of the list read, in order.
OneAtATime(m) ==
    /\ Len(m.issued) = m.idx /\ m.idx >= 1
    /\ m.issued[m.idx].status = "pending"
    /\ \A k \in 1..(m.idx - 1) : m.issued[k].status \in {"ok", "failed"}
    /\ (m.clean \/ ~MemoryOnly)
          => /\ m.idx <= Len(m.read)
             /\ \A k \in 1..m.idx :
                   m.issued[k].payload = Payload(m.newUser, m.read[k])

\* C18: a merge issues its inserts one at a time in the order of the local
\* cart list: the insert for line k+1 is issued only when the insert for
\* line k has come back, so one insert per merge is in flight.
C18_MergeOrdering == \A i \in 1..Len(merges) : OneAtATime(merges[i])

\* C18 witness: a merge of two lines awaits its second insert, the first
\* having failed.
C18_Witness ==
    \E i \in 1..Len(merges) :
        /\ Len(merges[i].read) = 2 /\ merges[i].idx = 2
        /\ merges[i].issued[1].status = "failed"
        /\ merges[i].issued[2].status = "pending"
        /\ merges[i].issued[2].payload.size = merges[i].read[2].size

-----------------------------------------------------------------------------
(* Frame properties of the notifications (Spec, SpecAuth) *)

\* A notification with a session reaches a callback whose prevUser is null
\* while getLocalCart() is empty: nothing is inserted, no merge starts and
\* the three places of the local cart are as before.
EmptyCartLogin(s) ==
    (AuthNotify(s) /\ subUser = NoUser /\ LocalCart = <<>>)
    => /\ UNCHANGED <<localStorage, sessionStorage, memoryCart>>
       /\ UNCHANGED <<merges, nextMid, mergeInserts, rows>>

\* C19: a Guest->Authenticated notification that finds getLocalCart() empty
\* issues no insert and does not call clearLocalCart: localStorage,
\* sessionStorage and memoryCart are unchanged; only a merge that read lines
\* ever clears.
C19_EmptyCartLogin ==
    /\ [][\A s \in Users : EmptyCartLogin(s)]_vars
    /\ [](/\ \A i \in 1..Len(merges) : Len(merges[i].read) > 0
          /\ lastDone.mid # 0 => Len(lastDone.read) > 0)

\* C19 witness: the guest emptied the cart by removing its line, so the
\* 'cart' key still holds an empty list, and the sign-in notification has
\* been delivered.
C19_Witness ==
    /\ nEvents = 1 /\ session \in Users /\ nextUser = session
    /\ user = NoUser /\ subUser = NoUser
    /\ localStorage.present /\ LocalCart = <<>>
    /\ nextMid = 0 /\ rows = <<>>

\* A notification with no session: the queued user is null, no merge starts,
\* no insert is issued, the table and the local cart are as before.
SignedOutQuietly ==
    AuthNotify(NoUser)
    => /\ session' = NoUser /\ nextUser' = NoUser
       /\ UNCHANGED <<merges, nextMid, mergeInserts, rows>>
       /\ UNCHANGED <<localStorage, sessionStorage, memoryCart>>

\* C20: a successful signOut leads to a notification with no session; the
\* provider's user is null from the next render; the transition starts no
\* merge, writes nothing to cart_items and leaves the local cart and the
\* user's rows unchanged.
C20_SignOut ==
    /\ [][SignOut(TRUE) => AuthNotify(NoUser)]_vars
    /\ [][SignedOutQuietly]_vars
    /\ [][(Render /\ nextUser = NoUser) => user' = NoUser]_vars

\* C20 witness: a user with a row in cart_items and a line left in the local
\* cart has signed out; the notification has been delivered.
C20_Witness ==
    /\ session = NoUser /\ nextUser = NoUser
    /\ user \in Users /\ subUser = user
    /\ nEvents = 1
    /\ Len(LocalCart) = 1 /\ Len(rows) = 1
    /\ nextMid = 0

-----------------------------------------------------------------------------
(* Properties of the guest lines across a login (SpecAuth) *)

\* C21 as claimed: whenever the provider holds a user and no merge is in
\* flight, getLocalCart() is empty.
C21_NoOrphanedGuestLines ==
    (user # NoUser /\ merges = <<>>) => LocalCart = <<>>

\* The merge finishing in this step inserted the line localId, or some merge
\* has issued an insert for it.
InsertedRemotely(localId) == \E x \in mergeInserts' : x[2] = localId

\* The local cart after this step still has the line localId.
StillLocal(localId) ==
    FindId(GetLocalCart(Store(localStorage', sessionStorage', memoryCart'),
                        lsThrows, ssThrows), localId) # 0

\* C22 as claimed: when a merge finishes (lines 46-47), every line that was
\* added to the local cart after the merge read it is inserted remotely or
\* is still in the local cart.
C22_InterleavedAddKept ==
    [][lastDone' # lastDone =>
          \A k \in 1..Len(LocalCart) :
              FindId(lastDone'.read, LocalCart[k].localId) = 0
              => (InsertedRemotely(LocalCart[k].localId)
                    \/ StillLocal(LocalCart[k].localId))]_vars

-----------------------------------------------------------------------------
(* Properties of the store under partial storage failure (SpecPartial) *)

\* C24 as claimed: whichever storage calls throw, getLocalCart() right after
\* saveLocalCart(items) returns items, and right after clearLocalCart() it
\* returns the empty list.
C24_ReadYourWrites == probe.read => probe.got = probe.expect

-----------------------------------------------------------------------------
(* Properties of the Cart view under overlapping calls (SpecCart) *)

\* Calls i and j were started from the same rendered list, which was the
\* user's rows, on different rows; both have succeeded, and no row was
\* added and no load failed meanwhile.
OverlappedAndDone(i, j) ==
    /\ cartOps[i].status = "ok" /\ cartOps[j].status = "ok"
    /\ cartOps[i].seen = cartOps[j].seen /\ cartOps[i].fresh /\ cartOps[j].fresh
    /\ cartOps[i].id # cartOps[j].id
    /\ nextRowId = cartOps[i].rowsThen
    /\ ~loadFailed

\* C23 as claimed: after two removeItem / updateQuantity calls on different
\* rows, started from the same rendered list, have both succeeded, the
\* displayed items are the user's remote rows.
C23_ViewAfterOverlappingWrites ==
    \A i \in 1..Len(cartOps), j \in 1..Len(cartOps) :
        (i < j /\ OverlappedAndDone(i, j))
        => items = SelectByUser(rows, session, user)

-----------------------------------------------------------------------------
(* Properties of the cart view across a login (SpecView) *)

\* A merge for the user in session has finished, none is running, and the
\* cart view is open (it has been since the guest's first add).
MergeDoneViewOpen ==
    /\ lastDone.mid # 0 /\ merges = <<>>
    /\ cartOpen /\ session = lastDone.newUser

\* The view shows item as a row of user u.
Displayed(payload) ==
    \E j \in 1..Len(items) :
        /\ items[j].user_id = payload.user_id
        /\ items[j].product_name = payload.product_name
        /\ items[j].size = payload.size
        /\ items[j].quantity = payload.quantity

\* The view is the user's and shows every row the last merge inserted.
MergedRowsShown ==
    /\ user = lastDone.newUser
    /\ \A k \in 1..Len(lastDone.issued) :
          lastDone.issued[k].status = "ok" => Displayed(lastDone.issued[k].payload)

====
